---------------------------- MODULE Spec2Model ----------------------------
(***************************************************************************)
(* Audio orchestration and story-history state machine of the bedtime      *)
(* story client (src/types.ts, the App component).                         *)
(*                                                                         *)
(* React state and refs are the variables.  Every handler is one action    *)
(* up to its first await; every continuation after an await is one more    *)
(* action.  An async invocation that is suspended is a record in a set     *)
(* (narTasks, ambTasks, turns) holding what its closure captured.          *)
(***************************************************************************)
EXTENDS Integers, Sequences, FiniteSets, TLC

VARIABLES
    \* ---- React state of App (types.ts 87-100)
    chatHistory,            \* visible chat
    imageUrl,               \* visible image
    choices,                \* visible choices
    isLoading,
    isAmbianceMuted,
    history,                \* the undo/redo log, a sequence of StoryState
    historyIndex,           \* 0-based cursor into history
    \* ---- refs and storage
    welcomeAudioHandled,    \* types.ts 106
    welcomeTts,             \* the welcome textToSpeech promise: "pending" | "settled" | "failed"
    savedData,              \* localStorage[SAVE_KEY]: <<>> or <<blob>>
    characterVoices,        \* types.ts 96: speaker tag -> voice
    loads,                  \* how often the story was loaded (read only to bound the runs)
    dialogue,               \* a story text and the dialogue parts derived from it
                            \* (types.ts 376-393 on its own; no handler reads it)
    turns,                  \* suspended handleSendMessage invocations
    \* ---- narration refs (types.ts 107-111)
    narrationAudioContext,  \* "null" | "suspended" | "running"
    currentNarrationSource,
    narrationQueue,
    isPlayingNarration,
    narrationVersion,
    narTasks,               \* suspended processNarrationQueue invocations
    narSources,             \* started sources whose onended has not run yet
    \* ---- narration bookkeeping for the properties (not read by any action)
    enqueued,               \* items of the latest enqueue, <<>> after a cancel
    played,                 \* items started since the latest enqueue
    failedItems,            \* items of the latest enqueue whose decode/start failed
    abandoned,              \* a context/resume failure hit the latest enqueue
    \* ---- ambiance refs (types.ts 113-116)
    ambianceAudioContext,   \* "null" | "suspended" | "running"
    ambianceGain,           \* value the gain node is set or ramping to, in tenths
    currentAmbianceSource,  \* id of the source the ref holds, 0 = null
    currentAmbianceUrl,     \* the current-track marker, "null" = null
    ambTasks,               \* suspended playAmbiance invocations
    ambSources,             \* started ambiance sources not stopped yet
    \* ---- ambiance bookkeeping for the properties (read only to number the calls)
    ambLog                  \* one entry per playAmbiance call, in call order

appVars == <<chatHistory, imageUrl, choices, isLoading, isAmbianceMuted, history,
             historyIndex, welcomeAudioHandled, welcomeTts, savedData,
             characterVoices, loads, dialogue, turns>>
narVars == <<narrationAudioContext, currentNarrationSource, narrationQueue,
             isPlayingNarration, narrationVersion, narTasks, narSources,
             enqueued, played, failedItems, abandoned>>
ambVars == <<ambianceAudioContext, ambianceGain, currentAmbianceSource,
             currentAmbianceUrl, ambTasks, ambSources, ambLog>>
vars == <<appVars, narVars, ambVars>>

----------------------------------------------------------------------------
(* Bounds *)

\* narrationVersion never exceeds this: every action that cancels narration is
\* disabled once it is reached.
MaxVersion == 4
\* longest narration sequence one call enqueues
MaxSegments == 3
\* playAmbiance calls made by a caller outside a turn
MaxAmbCalls == 3
\* most speaker tags the story text of one turn has
MaxTurnSegments == 1
\* how often the saved story is loaded
MaxLoads == 1
\* most speaker tags of a story when the voice logic is checked on its own
MaxDialogue == 3
\* most pieces (tags, words, blanks, markers) of a story text
MaxTokens == 3

----------------------------------------------------------------------------
(* Narration player: types.ts 158-253 *)

\* A payload is a base64 string in the code.  Here it carries the generation of
\* the call that enqueued it and its position, so that two payloads are told apart.
NoItem == [gen |-> 0, pos |-> 0]
Items(gen, n) == [i \in 1..n |-> [gen |-> gen, pos |-> i]]

\* outcomes of `new AudioContext()`: it throws, or yields a context in this state
ContextOutcomes == {"throw", "suspended", "running"}

\* The narration refs as one record, so that the handlers compose as functions.
Nar == [version |-> narrationVersion, queue |-> narrationQueue,
        current |-> currentNarrationSource, playing |-> isPlayingNarration,
        ctx |-> narrationAudioContext, tasks |-> narTasks, sources |-> narSources,
        enq |-> enqueued, played |-> played, failed |-> failedItems,
        abandoned |-> abandoned]

SetNar(n) ==
    /\ narrationVersion' = n.version
    /\ narrationQueue' = n.queue
    /\ currentNarrationSource' = n.current
    /\ isPlayingNarration' = n.playing
    /\ narrationAudioContext' = n.ctx
    /\ narTasks' = n.tasks
    /\ narSources' = n.sources
    /\ enqueued' = n.enq
    /\ played' = n.played
    /\ failedItems' = n.failed
    /\ abandoned' = n.abandoned

\* stop() on the source the ref holds: it is silent from now on and its ended
\* event (the onended callback) is still to be delivered.
StopSource(sources, item) ==
    {IF s.item = item THEN [s EXCEPT !.state = "stopped"] ELSE s : s \in sources}

\* mutant: the cancellation leaves the active source playing
stopNarration_keepsSource(n) ==
    [n EXCEPT !.version = @ + 1, !.queue = <<>>, !.current = NoItem,
              !.playing = FALSE,
              !.enq = <<>>, !.played = <<>>, !.failed = {}, !.abandoned = FALSE]

\* mutant: the cancellation does not raise the generation
stopNarration_sameVersion(n) ==
    [n EXCEPT !.queue = <<>>,
              !.sources = IF n.current # NoItem THEN StopSource(@, n.current) ELSE @,
              !.current = NoItem,
              !.playing = FALSE,
              !.enq = <<>>, !.played = <<>>, !.failed = {}, !.abandoned = FALSE]

\* mutant: the cancellation leaves the playing flag as it is
stopNarration_keepsFlag(n) ==
    [n EXCEPT !.version = @ + 1,
              !.queue = <<>>,
              !.sources = IF n.current # NoItem THEN StopSource(@, n.current) ELSE @,
              !.current = NoItem,
              !.enq = <<>>, !.played = <<>>, !.failed = {}, !.abandoned = FALSE]

\* types.ts 158-169
stopNarration(n) ==
    [n EXCEPT !.version = @ + 1,
              !.queue = <<>>,
              !.sources = IF n.current # NoItem THEN StopSource(@, n.current) ELSE @,
              !.current = NoItem,
              !.playing = FALSE,
              !.enq = <<>>, !.played = <<>>, !.failed = {}, !.abandoned = FALSE]

\* types.ts 183-215 and 217-224: processNarrationQueue up to its first await.
\* mk is what `new AudioContext()` does if the context does not exist yet.
\* The version check of line 217 cannot fail when no await came before it.
\* (decode() of line 223 is taken to succeed; a payload that cannot be decoded
\* fails at the awaited decodeAudioData, action DecodeFail.)
processNarrationQueue(n, mk) ==
    IF n.playing \/ n.queue = <<>> THEN n
    ELSE LET audioData == Head(n.queue)
             n1 == [n EXCEPT !.playing = TRUE, !.queue = Tail(@)]
         IN  IF n1.ctx = "null" /\ mk = "throw"
             THEN [n1 EXCEPT !.playing = FALSE, !.abandoned = TRUE]
             ELSE LET n2 == IF n1.ctx = "null" THEN [n1 EXCEPT !.ctx = mk] ELSE n1
                  IN  [n2 EXCEPT !.tasks = @ \cup
                         {[ver |-> n.version, item |-> audioData,
                           pc |-> IF n2.ctx = "suspended" THEN "resume" ELSE "decode"]}]

\* types.ts 171-175
playNarration(n, base64Audio, mk) ==
    LET n1 == stopNarration(n)
    IN  processNarrationQueue(
            [n1 EXCEPT !.queue = <<base64Audio>>, !.enq = <<base64Audio>>], mk)

\* types.ts 177-181
playNarrationSequence(n, audioDataArray, mk) ==
    LET n1 == stopNarration(n)
    IN  processNarrationQueue(
            [n1 EXCEPT !.queue = audioDataArray, !.enq = audioDataArray], mk)

\* types.ts 209 resolved, then 217-220 and on to the await of line 224
ResumeOk(t) ==
    /\ t \in narTasks /\ t.pc = "resume"
    /\ LET n1 == [Nar EXCEPT !.ctx = "running"]
       IN  IF t.ver # narrationVersion
           THEN SetNar([n1 EXCEPT !.playing = FALSE, !.tasks = @ \ {t}])
           ELSE SetNar([n1 EXCEPT !.tasks = (@ \ {t}) \cup {[t EXCEPT !.pc = "decode"]}])
    /\ UNCHANGED <<appVars, ambVars>>

\* types.ts 210-214: resume() rejected
ResumeFail(t) ==
    /\ t \in narTasks /\ t.pc = "resume"
    /\ SetNar([Nar EXCEPT !.playing = FALSE, !.tasks = @ \ {t},
                          !.abandoned = IF t.ver = narrationVersion THEN TRUE ELSE @])
    /\ UNCHANGED <<appVars, ambVars>>

\* mutant: no version check after the decode
DecodeOk_noRecheck(t) ==
    /\ t \in narTasks /\ t.pc = "decode"
    /\ SetNar([Nar EXCEPT !.tasks = @ \ {t},
                          !.sources = @ \cup {[item |-> t.item, ver |-> t.ver,
                                               state |-> "playing"]},
                          !.current = t.item,
                          !.played = Append(@, t.item)])
    /\ UNCHANGED <<appVars, ambVars>>

\* types.ts 224 resolved, then 226-245: the source is created and started
DecodeOk(t) ==
    /\ t \in narTasks /\ t.pc = "decode"
    /\ IF t.ver # narrationVersion
       THEN SetNar([Nar EXCEPT !.playing = FALSE, !.tasks = @ \ {t}])
       ELSE SetNar([Nar EXCEPT !.tasks = @ \ {t},
                               !.sources = @ \cup {[item |-> t.item, ver |-> t.ver,
                                                    state |-> "playing"]},
                               !.current = t.item,
                               !.played = Append(@, t.item)])
    /\ UNCHANGED <<appVars, ambVars>>

\* mutant: a failed item ends the draining
DecodeFail_stops(t) ==
    /\ t \in narTasks /\ t.pc = "decode"
    /\ SetNar([Nar EXCEPT !.tasks = @ \ {t}, !.playing = FALSE,
                          !.failed = IF t.ver = narrationVersion
                                     THEN @ \cup {t.item} ELSE @])
    /\ UNCHANGED <<appVars, ambVars>>

\* types.ts 246-252: decodeAudioData rejected, or creating/starting the source threw
DecodeFail(t) ==
    /\ t \in narTasks /\ t.pc = "decode"
    /\ LET n1 == [Nar EXCEPT !.tasks = @ \ {t}, !.playing = FALSE,
                             !.failed = IF t.ver = narrationVersion
                                        THEN @ \cup {t.item} ELSE @]
       IN  IF t.ver = narrationVersion
           THEN SetNar(processNarrationQueue(n1, "running"))
           ELSE SetNar(n1)
    /\ UNCHANGED <<appVars, ambVars>>

\* types.ts 237-245: the ended event of a source, after it played to its end or
\* after stop() was called on it
OnEnded(s) ==
    /\ s \in narSources
    /\ LET n1 == [Nar EXCEPT !.sources = @ \ {s}, !.playing = FALSE,
                             !.current = IF @ = s.item THEN NoItem ELSE @]
       IN  IF s.ver = narrationVersion
           THEN SetNar(processNarrationQueue(n1, "running"))
           ELSE SetNar(n1)
    /\ UNCHANGED <<appVars, ambVars>>

\* continuations after the await of resume() (only a suspended context is resumed)
NarrationResumeStep ==
    \/ \E t \in narTasks : ResumeOk(t)
    \/ \E t \in narTasks : ResumeFail(t)

\* continuations after the await of decodeAudioData, and the ended events
NarrationPlayStep ==
    \/ \E t \in narTasks : DecodeOk(t)
    \/ \E t \in narTasks : DecodeFail(t)
    \/ \E s \in narSources : OnEnded(s)

NarrationStep == NarrationResumeStep \/ NarrationPlayStep

\* The player driven directly: any caller, any time.
CallStopNarration ==
    /\ narrationVersion < MaxVersion
    /\ SetNar(stopNarration(Nar))
    /\ UNCHANGED <<appVars, ambVars>>

CallPlayNarration ==
    /\ narrationVersion < MaxVersion
    /\ \E mk \in ContextOutcomes :
          SetNar(playNarration(Nar, Items(narrationVersion + 1, 1)[1], mk))
    /\ UNCHANGED <<appVars, ambVars>>

CallPlayNarrationSequence ==
    /\ narrationVersion < MaxVersion
    /\ \E n \in 0..MaxSegments, mk \in ContextOutcomes :
          SetNar(playNarrationSequence(Nar, Items(narrationVersion + 1, n), mk))
    /\ UNCHANGED <<appVars, ambVars>>

----------------------------------------------------------------------------
(* Ambiance player: types.ts 43-53 and 256-334 *)

\* types.ts 44, in tenths (0.3)
AMBIANCE_VOLUME == 3

\* services/geminiService.ts 108: three of the six keywords
ambianceKeywords == {"forest", "cave", "calm"}
\* types.ts 46-53
ambianceAudioMap == [forest |-> "Forest_sounds.ogg", cave |-> "Sound_of_a_cave.ogg",
                     calm |-> "Peaceful_sound_of_a_small_stream.ogg"]
AmbianceUrls == {ambianceAudioMap[k] : k \in ambianceKeywords}

Amb == [ctx |-> ambianceAudioContext, gain |-> ambianceGain,
        current |-> currentAmbianceSource, url |-> currentAmbianceUrl,
        tasks |-> ambTasks, sources |-> ambSources, log |-> ambLog]

SetAmb(a) ==
    /\ ambianceAudioContext' = a.ctx
    /\ ambianceGain' = a.gain
    /\ currentAmbianceSource' = a.current
    /\ currentAmbianceUrl' = a.url
    /\ ambTasks' = a.tasks
    /\ ambSources' = a.sources
    /\ ambLog' = a.log

\* One entry of ambLog per playAmbiance call, in call order: the url asked for,
\* the calls that were suspended when it was made, and how far it got:
\* "dropped" | "ctxfail" | "resume" | "resumefail" | "fetch" | "fetchfail" | "started"
Call(url, during, status) == [url |-> url, during |-> during, status |-> status]
TaskIds(tasks) == {t.id : t \in tasks}

\* types.ts 282-297: the old source is faded out and scheduled to stop, the ref
\* is cleared, and the fetch is issued.  The three awaits that follow (fetch,
\* arrayBuffer, decodeAudioData) touch no shared state in between, so they are
\* one suspension here, ended by AmbLoaded or AmbFetchFail.
fadeAndFetch(a, t) ==
    LET a1 == IF a.current # 0
              THEN [a EXCEPT !.gain = 0,
                             !.sources = {IF s.id = a.current
                                          THEN [s EXCEPT !.state = "fading"] ELSE s
                                          : s \in @},
                             !.current = 0]
              ELSE a
    IN  [a1 EXCEPT !.tasks = (@ \ {t}) \cup {[t EXCEPT !.pc = "fetch"]},
                   !.log[t.id].status = "fetch"]

\* mutant: no same-url check
playAmbiance_noCheck(a, url, muted, mk) ==
    LET id == Len(a.log) + 1
        t  == [id |-> id, url |-> url, muted |-> muted, pc |-> "resume",
               loads |-> loads]
        a1 == [a EXCEPT !.url = url,
                        !.log = Append(@, Call(url, TaskIds(a.tasks), "resume"))]
    IN  IF a1.ctx = "null" /\ mk = "throw"
        THEN [a1 EXCEPT !.log[id].status = "ctxfail"]
        ELSE LET a2 == IF a1.ctx = "null"
                       THEN [a1 EXCEPT !.ctx = mk,
                                       !.gain = IF muted THEN 0 ELSE AMBIANCE_VOLUME]
                       ELSE a1
             IN  IF a2.ctx = "suspended"
                 THEN [a2 EXCEPT !.tasks = @ \cup {t}]
                 ELSE fadeAndFetch(a2, t)

\* types.ts 256-297: playAmbiance up to its first await.  muted is the
\* isAmbianceMuted of the render whose closure is running; mk is what
\* `new AudioContext()` does if the context does not exist yet.  The invocation
\* remembers how many loads had happened when it was called.
playAmbiance(a, url, muted, mk) ==
    LET id == Len(a.log) + 1
        t  == [id |-> id, url |-> url, muted |-> muted, pc |-> "resume",
               loads |-> loads]
    IN  IF url = a.url
        THEN [a EXCEPT !.log = Append(@, Call(url, TaskIds(a.tasks), "dropped"))]
        ELSE LET a1 == [a EXCEPT !.url = url,
                                 !.log = Append(@, Call(url, TaskIds(a.tasks), "resume"))]
             IN  IF a1.ctx = "null" /\ mk = "throw"
                 THEN [a1 EXCEPT !.log[id].status = "ctxfail"]
                 ELSE LET a2 == IF a1.ctx = "null"
                                THEN [a1 EXCEPT !.ctx = mk,
                                                !.gain = IF muted THEN 0
                                                         ELSE AMBIANCE_VOLUME]
                                ELSE a1
                      IN  IF a2.ctx = "suspended"
                          THEN [a2 EXCEPT !.tasks = @ \cup {t}]
                          ELSE fadeAndFetch(a2, t)

\* types.ts 275 resolved, then 282-297
AmbResumeOk(t) ==
    /\ t \in ambTasks /\ t.pc = "resume"
    /\ SetAmb(fadeAndFetch([Amb EXCEPT !.ctx = "running"], t))
    /\ UNCHANGED <<appVars, narVars>>

\* types.ts 276-279: resume() rejected
AmbResumeFail(t) ==
    /\ t \in ambTasks /\ t.pc = "resume"
    /\ SetAmb([Amb EXCEPT !.tasks = @ \ {t},
                          !.log[t.id].status = "resumefail"])
    /\ UNCHANGED <<appVars, narVars>>

\* types.ts 313 resolved, then 315-329: the new looping source is started
AmbLoaded(t) ==
    /\ t \in ambTasks /\ t.pc = "fetch"
    /\ SetAmb([Amb EXCEPT !.tasks = @ \ {t},
                          !.sources = @ \cup {[id |-> t.id, url |-> t.url,
                                               state |-> "live"]},
                          !.current = t.id,
                          !.gain = IF t.muted THEN 0 ELSE AMBIANCE_VOLUME,
                          !.log[t.id].status = "started"])
    /\ UNCHANGED <<appVars, narVars>>

\* types.ts 330-333: fetch rejected, status not ok, payload under 1024 bytes, or
\* decodeAudioData rejected
AmbFetchFail(t) ==
    /\ t \in ambTasks /\ t.pc = "fetch"
    /\ SetAmb([Amb EXCEPT !.tasks = @ \ {t},
                          !.url = "null",
                          !.log[t.id].status = "fetchfail"])
    /\ UNCHANGED <<appVars, narVars>>

\* types.ts 287-292: the timer of a faded-out source fires
AmbFadeTimeout(s) ==
    /\ s \in ambSources /\ s.state = "fading"
    /\ ambSources' = ambSources \ {s}
    /\ UNCHANGED <<ambianceAudioContext, ambianceGain, currentAmbianceSource,
                   currentAmbianceUrl, ambTasks, ambLog>>
    /\ UNCHANGED <<appVars, narVars>>

\* continuations after the await of resume() (only a suspended context is resumed)
AmbianceResumeStep ==
    \/ \E t \in ambTasks : AmbResumeOk(t)
    \/ \E t \in ambTasks : AmbResumeFail(t)

\* continuations after the fetch/decode awaits, and the fade timers
AmbianceLoadStep ==
    \/ \E t \in ambTasks : AmbLoaded(t)
    \/ \E t \in ambTasks : AmbFetchFail(t)
    \/ \E s \in ambSources : AmbFadeTimeout(s)

AmbianceStep == AmbianceResumeStep \/ AmbianceLoadStep

\* types.ts 492-499
HandleToggleAmbianceMute ==
    /\ isAmbianceMuted' = ~isAmbianceMuted
    /\ ambianceGain' = IF ambianceAudioContext # "null"
                       THEN (IF ~isAmbianceMuted THEN 0 ELSE AMBIANCE_VOLUME)
                       ELSE ambianceGain
    /\ UNCHANGED <<chatHistory, imageUrl, choices, isLoading, history, historyIndex,
                   welcomeAudioHandled, welcomeTts, savedData,
                   characterVoices, loads, dialogue, turns>>
    /\ UNCHANGED <<ambianceAudioContext, currentAmbianceSource, currentAmbianceUrl,
                   ambTasks, ambSources, ambLog>>
    /\ UNCHANGED narVars

\* The player driven directly: any caller, from any render.
CallPlayAmbiance ==
    /\ Len(ambLog) < MaxAmbCalls
    /\ \E url \in AmbianceUrls, muted \in BOOLEAN, mk \in ContextOutcomes :
          SetAmb(playAmbiance(Amb, url, muted, mk))
    /\ UNCHANGED <<appVars, narVars>>

----------------------------------------------------------------------------
(* Story state: types.ts 58-82 *)

welcomeMessage == [author |-> "model", text |-> "welcome"]
initialStoryState == [chatHistory |-> <<welcomeMessage>>,
                      imageUrl |-> "welcome.png",
                      choices |-> <<>>]

apologyMessage == [author |-> "model", text |-> "apology"]

\* What the user can type: a blank line or a request.
UserInputs == {" ", "tell"}
\* String.prototype.trim on these inputs
Trim(u) == IF u = " " THEN "" ELSE u

\* response.text of chatSession.sendMessage and what JSON.parse makes of it:
\* json = it parses; isString / isArray = the typeof / Array.isArray checks of
\* line 362 on parsedResponse.story / parsedResponse.choices.
Responses ==
    { [text |-> "json-ok", json |-> TRUE, story |-> "story", isString |-> TRUE,
       choices |-> <<"left", "right">>, isArray |-> TRUE],
      [text |-> "Once upon a time...", json |-> FALSE, story |-> "", isString |-> FALSE,
       choices |-> <<>>, isArray |-> FALSE],
      [text |-> "json-ending", json |-> TRUE, story |-> "the end", isString |-> TRUE,
       choices |-> <<>>, isArray |-> TRUE],
      [text |-> "json-blank", json |-> TRUE, story |-> "", isString |-> TRUE,
       choices |-> <<"left", "right">>, isArray |-> TRUE],
      [text |-> "json-nostory", json |-> TRUE, story |-> "", isString |-> FALSE,
       choices |-> <<"left", "right">>, isArray |-> TRUE] }

\* services/geminiService.ts 55-81: a generated image or the placeholder
Illustrations == {"generated.png", "placeholder.png"}

\* types.ts 143-151: the effect that copies history[historyIndex] into the view
\* after a render in which history or historyIndex changed
SyncView(h, i) ==
    /\ chatHistory' = h[i + 1].chatHistory
    /\ imageUrl' = h[i + 1].imageUrl
    /\ choices' = h[i + 1].choices

\* types.ts 101-102
canUndo == historyIndex > 0
canRedo == historyIndex < Len(history) - 1

\* mutant: undo without the canUndo guard
HandleUndo_noGuard ==
    /\ historyIndex' = historyIndex - 1
    /\ IF historyIndex' + 1 \in DOMAIN history
       THEN SyncView(history, historyIndex')
       ELSE UNCHANGED <<chatHistory, imageUrl, choices>>
    /\ UNCHANGED <<isLoading, isAmbianceMuted, history, welcomeAudioHandled,
                   welcomeTts, savedData,
                   characterVoices, loads, dialogue, turns>>
    /\ UNCHANGED <<narVars, ambVars>>

\* mutant: redo without the canRedo guard
HandleRedo_noGuard ==
    /\ historyIndex' = historyIndex + 1
    /\ IF historyIndex' + 1 \in DOMAIN history
       THEN SyncView(history, historyIndex')
       ELSE UNCHANGED <<chatHistory, imageUrl, choices>>
    /\ UNCHANGED <<isLoading, isAmbianceMuted, history, welcomeAudioHandled,
                   welcomeTts, savedData,
                   characterVoices, loads, dialogue, turns>>
    /\ UNCHANGED <<narVars, ambVars>>

\* types.ts 501, and the sync effect
HandleUndo ==
    /\ IF canUndo
       THEN /\ historyIndex' = historyIndex - 1
            /\ SyncView(history, historyIndex')
       ELSE UNCHANGED <<historyIndex, chatHistory, imageUrl, choices>>
    /\ UNCHANGED <<isLoading, isAmbianceMuted, history, welcomeAudioHandled,
                   welcomeTts, savedData,
                   characterVoices, loads, dialogue, turns>>
    /\ UNCHANGED <<narVars, ambVars>>

\* types.ts 502, and the sync effect
HandleRedo ==
    /\ IF canRedo
       THEN /\ historyIndex' = historyIndex + 1
            /\ SyncView(history, historyIndex')
       ELSE UNCHANGED <<historyIndex, chatHistory, imageUrl, choices>>
    /\ UNCHANGED <<isLoading, isAmbianceMuted, history, welcomeAudioHandled,
                   welcomeTts, savedData,
                   characterVoices, loads, dialogue, turns>>
    /\ UNCHANGED <<narVars, ambVars>>

----------------------------------------------------------------------------
(* Dialogue parts and character voices: types.ts 55-56 and 376-408 *)

\* types.ts 55-56
availableVoices == <<"Puck", "Charon", "Fenrir", "Zephyr">>
narratorVoice == "Kore"
\* types.ts 96: the initial CharacterVoiceMap
initialVoices == [c \in {"NARRATOR"} |-> narratorVoice]

\* A story text, as far as the dialogue logic looks at it: whether
\* storyText.trim() is empty, and the matches of /\[([A-Z\s]+)\]([^\[]*)/g in
\* order, each with its trimmed speaker tag and whether its text is empty
\* after stripping and trimming.
BlankBody == [blank |-> TRUE, matches |-> <<>>]
Match(speaker, empty) == [speaker |-> speaker, empty |-> empty]
\* the story texts with from..to tags, each tag one of speakers
Bodies(speakers, empties, from, to) ==
    {BlankBody} \cup
    {[blank |-> FALSE, matches |-> m] :
        m \in UNION {[1..k -> {Match(c, e) : c \in speakers, e \in empties}] : k \in from..to}}
\* speaker tags the stories use
SpeakerTags == {"NARRATOR", "BARNABY", "MOLLY"}

\* types.ts 380-389: the speakers of the dialogue parts the matches give
\* (a match whose text is empty is skipped)
RECURSIVE MatchedSpeakers(_)
MatchedSpeakers(matches) ==
    IF matches = <<>> THEN <<>>
    ELSE IF Head(matches).empty THEN MatchedSpeakers(Tail(matches))
         ELSE <<Head(matches).speaker>> \o MatchedSpeakers(Tail(matches))

\* types.ts 380-393: the speakers of dialogueParts, with the un-tagged fallback
PartSpeakers(body) ==
    LET tagged == MatchedSpeakers(body.matches)
    IN  IF tagged = <<>> /\ ~body.blank THEN <<"NARRATOR">> ELSE tagged

\* types.ts 378 and 386-388: unassignedChars, a Set kept in insertion order
RECURSIVE Unassigned(_, _, _)
Unassigned(voices, speakers, seen) ==
    IF speakers = <<>> THEN <<>>
    ELSE LET c == Head(speakers)
         IN  IF c \in DOMAIN voices \/ c \in seen
             THEN Unassigned(voices, Tail(speakers), seen)
             ELSE <<c>> \o Unassigned(voices, Tail(speakers), seen \cup {c})

\* types.ts 395-396
availableVoicePool(voices) ==
    SelectSeq(availableVoices, LAMBDA v : ~\E c \in DOMAIN voices : voices[c] = v)

\* mutant: every new speaker takes the first voice of the pool
Assign_firstVoice(voices, pool, chars) ==
    {[c \in DOMAIN voices \cup {chars[i] : i \in DOMAIN chars} |->
         IF c \in DOMAIN voices THEN voices[c] ELSE availableVoices[1]]}

\* types.ts 398-405: the forEach over unassignedChars.  getRandomElement may
\* return any voice of availableVoices, so the result is a set of maps.
RECURSIVE Assign(_, _, _)
Assign(voices, pool, chars) ==
    IF chars = <<>> THEN {voices}
    ELSE IF pool # <<>>
         THEN Assign(voices @@ (Head(chars) :> Head(pool)), Tail(pool), Tail(chars))
         ELSE UNION {Assign(voices @@ (Head(chars) :> availableVoices[i]), pool, Tail(chars)) :
                        i \in DOMAIN availableVoices}

\* types.ts 377-405: the maps newCharacterVoices can be, from the captured
\* characterVoices and the story text
NewCharacterVoices(voices, body) ==
    Assign(voices, availableVoicePool(voices),
           Unassigned(voices, MatchedSpeakers(body.matches), {}))

\* types.ts 408: the voice each textToSpeech request is made with
PartVoices(newVoices, body) ==
    LET sp == PartSpeakers(body)
    IN  [i \in DOMAIN sp |-> IF sp[i] \in DOMAIN newVoices THEN newVoices[sp[i]]
                             ELSE narratorVoice]

----------------------------------------------------------------------------
(* Deriving the dialogue parts from the story text: types.ts 380-393 *)

\* A text is a sequence of characters.  "N" and "B" stand for upper-case
\* letters (the tags [N] for the narrator and [B] for a character), "w" and
\* "d" for lower-case ones, " " for white space.
Alphabet == {"N", "B", "w", "d", " ", "[", "]", "{", "}", "|"}
TagChars == {"N", "B", " "}
NoDialogue == [storyText |-> <<>>, dialogueParts |-> <<>>, derived |-> FALSE]

\* the last index of the run of characters of class that starts at i (i - 1 if none)
RECURSIVE RunEnd(_, _, _)
RunEnd(text, i, class) ==
    IF i <= Len(text) /\ text[i] \in class THEN RunEnd(text, i + 1, class) ELSE i - 1

\* String.prototype.trim
RECURSIVE TrimStart(_)
TrimStart(text) ==
    IF text # <<>> /\ Head(text) = " " THEN TrimStart(Tail(text)) ELSE text
RECURSIVE TrimEnd(_)
TrimEnd(text) ==
    IF text # <<>> /\ text[Len(text)] = " "
    THEN TrimEnd(SubSeq(text, 1, Len(text) - 1)) ELSE text
TrimText(text) == TrimEnd(TrimStart(text))

\* types.ts 380: storyText.matchAll(/\[([A-Z\s]+)\]([^\[]*)/g) from index i on,
\* each match with its two groups
RECURSIVE TagMatches(_, _)
TagMatches(text, i) ==
    IF i > Len(text) THEN <<>>
    ELSE LET e == RunEnd(text, i + 1, TagChars)
         IN  IF text[i] = "[" /\ e >= i + 1 /\ e + 1 <= Len(text) /\ text[e + 1] = "]"
             THEN LET f == RunEnd(text, e + 2, Alphabet \ {"["})
                  IN  <<[tag |-> SubSeq(text, i + 1, e), rest |-> SubSeq(text, e + 2, f)]>>
                      \o TagMatches(text, f + 1)
             ELSE TagMatches(text, i + 1)

\* types.ts 383: match.split('|')[0].substring(1) for a match m of /{[^}]+}/
Replacement(m) ==
    LET bars == {k \in DOMAIN m : m[k] = "|"}
        bar  == IF bars = {} THEN Len(m) + 1 ELSE CHOOSE k \in bars : \A j \in bars : k <= j
    IN  SubSeq(m, 2, bar - 1)

\* types.ts 383: text.replace(/{[^}]+}/g, ...) from index i on
RECURSIVE ReplaceMarkers(_, _)
ReplaceMarkers(text, i) ==
    IF i > Len(text) THEN <<>>
    ELSE LET e == RunEnd(text, i + 1, Alphabet \ {"}"})
         IN  IF text[i] = "{" /\ e >= i + 1 /\ e + 1 <= Len(text) /\ text[e + 1] = "}"
             THEN Replacement(SubSeq(text, i, e + 1)) \o ReplaceMarkers(text, e + 2)
             ELSE <<text[i]>> \o ReplaceMarkers(text, i + 1)

\* types.ts 381-389: the loop over the matches
RECURSIVE TaggedParts(_)
TaggedParts(matches) ==
    IF matches = <<>> THEN <<>>
    ELSE LET speaker == TrimText(Head(matches).tag)
             text    == TrimText(ReplaceMarkers(Head(matches).rest, 1))
         IN  IF text = <<>> THEN TaggedParts(Tail(matches))
             ELSE <<[speaker |-> speaker, text |-> text]>> \o TaggedParts(Tail(matches))

\* types.ts 380-393: dialogueParts, with the un-tagged fallback
DialogueParts(storyText) ==
    LET parts == TaggedParts(TagMatches(storyText, 1))
    IN  IF parts = <<>> /\ TrimText(storyText) # <<>>
        THEN <<[speaker |-> <<"N">>, text |-> storyText]>>
        ELSE parts

\* The story texts the derivation is run on: up to MaxTokens pieces, each a
\* tag, a word, a blank or an interactive-word marker {word|definition}.
Tokens == { <<"[", "N", "]">>, <<"[", "B", "]">>, <<"w">>, <<" ">>,
            <<"{", "w", "|", "d", "}">> }
RECURSIVE Concat(_)
Concat(pieces) == IF pieces = <<>> THEN <<>> ELSE Head(pieces) \o Concat(Tail(pieces))
TokenSeqs == UNION {[1..k -> Tokens] : k \in 0..MaxTokens}
StoryTexts == {Concat(ts) : ts \in TokenSeqs}

\* types.ts 376-393 run on dialogue.storyText
DeriveDialogue ==
    /\ ~dialogue.derived
    /\ dialogue' = [dialogue EXCEPT !.dialogueParts = DialogueParts(dialogue.storyText),
                                    !.derived = TRUE]
    /\ UNCHANGED <<chatHistory, imageUrl, choices, isLoading, isAmbianceMuted, history,
                   historyIndex, welcomeAudioHandled, welcomeTts, savedData,
                   characterVoices, loads, turns>>
    /\ UNCHANGED <<narVars, ambVars>>

\* Turns that have not reached their playNarrationSequence yet: each will
\* raise narrationVersion once more.
Uncommitted == {t \in turns : t.pc \in {"gen", "join"}}
\* Every load may raise narrationVersion once beyond MaxVersion.
Headroom == MaxVersion + loads - narrationVersion - Cardinality(Uncommitted)

\* What the chat UI lets through (unnamed/part_000 74-80 and 182-196): a typed
\* line while no choices are shown, or one of the shown choices.
SendInputs == IF choices = <<>> THEN UserInputs ELSE {choices[i] : i \in DOMAIN choices}

\* types.ts 337-354: handleSendMessage up to the await of sendMessage.
\* chatSession.current is set by initializeApp and never cleared.
HandleSendMessage(userInput) ==
    /\ Headroom >= 2
    /\ IF Trim(userInput) = "" \/ isLoading
       THEN UNCHANGED vars
       ELSE LET n == stopNarration(Nar)
                userMessage == [author |-> "user", text |-> userInput]
                newChatHistory == Append(history[historyIndex + 1].chatHistory,
                                         userMessage)
            IN  /\ welcomeAudioHandled' = TRUE
                /\ SetNar(n)
                /\ isLoading' = TRUE
                /\ choices' = <<>>
                /\ chatHistory' = newChatHistory
                /\ turns' = turns \cup
                      {[id |-> n.version, pc |-> "gen",
                        history |-> history, historyIndex |-> historyIndex,
                        muted |-> isAmbianceMuted, voices |-> characterVoices,
                        chat |-> newChatHistory, choices |-> <<>>, parts |-> 0,
                        speakers |-> <<>>, partVoices |-> <<>>,
                        raw |-> "", json |-> FALSE, gen |-> 0]}
                /\ UNCHANGED <<imageUrl, isAmbianceMuted, history, historyIndex,
                               welcomeTts, savedData,
                   characterVoices, loads, dialogue>>
                /\ UNCHANGED ambVars

\* mutant: the catch also commits what the turn had so far
TurnFails_commits(t) ==
    /\ chatHistory' = Append(chatHistory, apologyMessage)
    /\ history' = Append(SubSeq(t.history, 1, t.historyIndex + 1),
                         [chatHistory |-> t.chat, imageUrl |-> imageUrl,
                          choices |-> t.choices])
    /\ historyIndex' = t.historyIndex + 1
    /\ isLoading' = FALSE
    /\ turns' = turns \ {t}
    /\ UNCHANGED <<imageUrl, choices, isAmbianceMuted,
                   welcomeAudioHandled, welcomeTts, savedData,
                   characterVoices, loads, dialogue>>
    /\ UNCHANGED <<narVars, ambVars>>

\* mutant: the catch without the finally
TurnFails_keepsLoading(t) ==
    /\ chatHistory' = Append(chatHistory, apologyMessage)
    /\ turns' = turns \ {t}
    /\ UNCHANGED <<imageUrl, choices, isLoading, isAmbianceMuted, history,
                   historyIndex, welcomeAudioHandled, welcomeTts, savedData,
                   characterVoices, loads, dialogue>>
    /\ UNCHANGED <<narVars, ambVars>>

\* types.ts 426-432: the catch and the finally of handleSendMessage
TurnFails(t) ==
    /\ chatHistory' = Append(chatHistory, apologyMessage)
    /\ isLoading' = FALSE
    /\ turns' = turns \ {t}
    /\ UNCHANGED <<imageUrl, choices, isAmbianceMuted, history, historyIndex,
                   welcomeAudioHandled, welcomeTts, savedData,
                   characterVoices, loads, dialogue>>
    /\ UNCHANGED <<narVars, ambVars>>

\* types.ts 354 rejected
GenFail(t) ==
    /\ t \in turns /\ t.pc = "gen"
    /\ TurnFails(t)

\* mutant: the story is always taken from the parsed response
GenResolve_parsedOnly(t, response, body) ==
    /\ t \in turns /\ t.pc = "gen"
    /\ LET valid == response.json /\ response.isString /\ response.isArray
           storyText == response.story
           newChoices == IF response.json /\ response.isArray
                         THEN response.choices ELSE <<>>
           modelMessage == [author |-> "model", text |-> storyText]
       IN  /\ body.blank <=> (storyText = "")
           /\ characterVoices' \in NewCharacterVoices(t.voices, body)
           /\ turns' = (turns \ {t}) \cup
                  {[t EXCEPT !.pc = "join", !.chat = Append(@, modelMessage),
                             !.choices = newChoices,
                             !.raw = response.text, !.json = response.json,
                             !.parts = Len(PartSpeakers(body)),
                             !.speakers = PartSpeakers(body),
                             !.partVoices = PartVoices(characterVoices', body)]}
    /\ UNCHANGED <<chatHistory, imageUrl, choices, isLoading, isAmbianceMuted,
                   history, historyIndex, welcomeAudioHandled, welcomeTts,
                   savedData, loads, dialogue>>
    /\ UNCHANGED <<narVars, ambVars>>

\* types.ts 354 resolved, then 355-410: the response is parsed, the dialogue
\* parts are derived from the story text (body), the voices are assigned and
\* the image, mood and speech requests are issued.  newChoices is assigned at
\* line 361, before the structure check of line 362, and the catch does not
\* reset it.
GenResolve(t, response, body) ==
    /\ t \in turns /\ t.pc = "gen"
    /\ LET valid == response.json /\ response.isString /\ response.isArray
           storyText == IF valid THEN response.story ELSE response.text
           newChoices == IF response.json THEN response.choices ELSE <<>>
           modelMessage == [author |-> "model", text |-> storyText]
       IN  /\ body.blank <=> (storyText = "")
           /\ characterVoices' \in NewCharacterVoices(t.voices, body)
           /\ turns' = (turns \ {t}) \cup
                  {[t EXCEPT !.pc = "join", !.chat = Append(@, modelMessage),
                             !.choices = newChoices,
                             !.raw = response.text, !.json = response.json,
                             !.parts = Len(PartSpeakers(body)),
                             !.speakers = PartSpeakers(body),
                             !.partVoices = PartVoices(characterVoices', body)]}
    /\ UNCHANGED <<chatHistory, imageUrl, choices, isLoading, isAmbianceMuted,
                   history, historyIndex, welcomeAudioHandled, welcomeTts,
                   savedData, loads, dialogue>>
    /\ UNCHANGED <<narVars, ambVars>>

\* types.ts 410 rejected: one of the textToSpeech promises rejected (the image
\* and the mood requests never reject, geminiService.ts 76-80 and 136-139)
JoinFail(t) ==
    /\ t \in turns /\ t.pc = "join" /\ t.parts > 0
    /\ TurnFails(t)

\* The orders in which n requests can complete.
CompletionOrders(n) ==
    {f \in [1..n -> 1..n] : \A i, j \in 1..n : f[i] = f[j] => i = j}

\* mutant: the results in the order of completion
PromiseAll_arrival(values, order) ==
    [k \in DOMAIN order |-> values[order[k]]]

\* types.ts 410: Promise.all of requests that complete in this order, k-th the
\* request order[k]: each result is stored at the index of its request
RECURSIVE StoreResults(_, _, _)
StoreResults(values, order, results) ==
    IF order = <<>> THEN results
    ELSE StoreResults(values, Tail(order),
                      [results EXCEPT ![Head(order)] = values[Head(order)]])
PromiseAll(values, order) ==
    StoreResults(values, order, [i \in DOMAIN values |-> NoItem])

\* mutant: the commit appends to the whole log instead of the log cut at the cursor
Commit_noTruncate(t, newImageUrl, ambianceKeyword, mkNar, mkAmb) ==
    /\ t \in turns /\ t.pc = "join"
    /\ \E order \in CompletionOrders(t.parts) :
       LET audioData == PromiseAll(Items(narrationVersion + 1, t.parts), order)
           newState == [chatHistory |-> t.chat, imageUrl |-> newImageUrl,
                        choices |-> t.choices]
           n == playNarrationSequence(Nar, audioData, mkNar)
       IN  /\ history' = Append(t.history, newState)
           /\ historyIndex' = t.historyIndex + 1
           /\ SyncView(history', historyIndex')
           /\ SetAmb(playAmbiance(Amb, ambianceAudioMap[ambianceKeyword], t.muted, mkAmb))
           /\ SetNar(n)
           /\ turns' = (turns \ {t}) \cup {[t EXCEPT !.pc = "narr", !.gen = n.version]}
    /\ UNCHANGED <<isLoading, isAmbianceMuted, welcomeAudioHandled, welcomeTts,
                   savedData,
                   characterVoices, loads, dialogue>>

\* mutant: the commit enqueues the narration without requesting the ambiance
Commit_noAmbiance(t, newImageUrl, ambianceKeyword, mkNar, mkAmb) ==
    /\ t \in turns /\ t.pc = "join"
    /\ \E order \in CompletionOrders(t.parts) :
       LET audioData == PromiseAll(Items(narrationVersion + 1, t.parts), order)
           newState == [chatHistory |-> t.chat, imageUrl |-> newImageUrl,
                        choices |-> t.choices]
           newHistory == SubSeq(t.history, 1, t.historyIndex + 1)
           n == playNarrationSequence(Nar, audioData, mkNar)
       IN  /\ history' = Append(newHistory, newState)
           /\ historyIndex' = Len(newHistory)
           /\ SyncView(history', historyIndex')
           /\ SetNar(n)
           /\ turns' = (turns \ {t}) \cup {[t EXCEPT !.pc = "narr", !.gen = n.version]}
    /\ UNCHANGED <<isLoading, isAmbianceMuted, welcomeAudioHandled, welcomeTts,
                   savedData,
                   characterVoices, loads, dialogue>>
    /\ UNCHANGED ambVars

\* types.ts 410 resolved, then 413-424: the snapshot is committed, the ambiance
\* switch is requested and the narration sequence is enqueued; the sync effect
\* then copies the new snapshot into the view.  The speech requests have
\* completed in some order.
Commit(t, newImageUrl, ambianceKeyword, mkNar, mkAmb) ==
    /\ t \in turns /\ t.pc = "join"
    /\ \E order \in CompletionOrders(t.parts) :
       LET audioData == PromiseAll(Items(narrationVersion + 1, t.parts), order)
           newState == [chatHistory |-> t.chat, imageUrl |-> newImageUrl,
                        choices |-> t.choices]
           newHistory == SubSeq(t.history, 1, t.historyIndex + 1)
           n == playNarrationSequence(Nar, audioData, mkNar)
       IN  /\ history' = Append(newHistory, newState)
           /\ historyIndex' = Len(newHistory)
           /\ SyncView(history', historyIndex')
           /\ SetAmb(playAmbiance(Amb, ambianceAudioMap[ambianceKeyword], t.muted, mkAmb))
           /\ SetNar(n)
           /\ turns' = (turns \ {t}) \cup {[t EXCEPT !.pc = "narr", !.gen = n.version]}
    /\ UNCHANGED <<isLoading, isAmbianceMuted, welcomeAudioHandled, welcomeTts,
                   savedData,
                   characterVoices, loads, dialogue>>

\* mutant: the turn also waits for its ambiance switch to settle
TurnFinally_awaitsAmbiance(t) ==
    /\ t \in turns /\ t.pc = "narr"
    /\ ~\E k \in narTasks : k.item = [gen |-> t.gen, pos |-> 1]
    /\ ambTasks = {}
    /\ isLoading' = FALSE
    /\ turns' = turns \ {t}
    /\ UNCHANGED <<chatHistory, imageUrl, choices, isAmbianceMuted, history,
                   historyIndex, welcomeAudioHandled, welcomeTts, savedData,
                   characterVoices, loads, dialogue>>
    /\ UNCHANGED <<narVars, ambVars>>

\* types.ts 424 resolved, then 430-432: the processNarrationQueue invocation
\* that playNarrationSequence awaits (the one for the first item) has returned
TurnFinally(t) ==
    /\ t \in turns /\ t.pc = "narr"
    /\ ~\E k \in narTasks : k.item = [gen |-> t.gen, pos |-> 1]
    /\ isLoading' = FALSE
    /\ turns' = turns \ {t}
    /\ UNCHANGED <<chatHistory, imageUrl, choices, isAmbianceMuted, history,
                   historyIndex, welcomeAudioHandled, welcomeTts, savedData,
                   characterVoices, loads, dialogue>>
    /\ UNCHANGED <<narVars, ambVars>>

\* types.ts 438-449
HandleSaveStory ==
    /\ savedData' = <<[history |-> history, historyIndex |-> historyIndex,
                       characterVoices |-> characterVoices]>>
    /\ UNCHANGED <<chatHistory, imageUrl, choices, isLoading, isAmbianceMuted,
                   history, historyIndex, welcomeAudioHandled, welcomeTts,
                   characterVoices, loads, dialogue, turns>>
    /\ UNCHANGED <<narVars, ambVars>>

\* types.ts 451-469, and the sync effect
HandleLoadStory ==
    /\ loads < MaxLoads
    /\ IF savedData = <<>>
       THEN UNCHANGED vars
       ELSE /\ SetNar(stopNarration(Nar))
            /\ IF currentAmbianceSource # 0
               THEN /\ ambSources' = {s \in ambSources : s.id # currentAmbianceSource}
                    /\ currentAmbianceUrl' = "null"
               ELSE UNCHANGED <<ambSources, currentAmbianceUrl>>
            /\ history' = savedData[1].history
            /\ historyIndex' = savedData[1].historyIndex
            /\ SyncView(history', historyIndex')
            /\ characterVoices' = savedData[1].characterVoices
            /\ isLoading' = FALSE
            /\ loads' = loads + 1
            /\ UNCHANGED <<isAmbianceMuted, welcomeAudioHandled, welcomeTts,
                           savedData, dialogue, turns>>
            /\ UNCHANGED <<ambianceAudioContext, ambianceGain, currentAmbianceSource,
                           ambTasks, ambLog>>

\* The payload of the welcome speech (types.ts 126): position 0 tells it apart
\* from the payloads of a turn.
welcomeAudio(gen) == [gen |-> gen, pos |-> 0]

\* mutant: the welcome speech is played whenever it arrives
WelcomeResolve_always ==
    /\ welcomeTts = "pending"
    /\ Headroom >= 1
    /\ welcomeTts' = "settled"
    /\ welcomeAudioHandled' = TRUE
    /\ \E mk \in ContextOutcomes :
          SetNar(playNarration(Nar, welcomeAudio(narrationVersion + 1), mk))
    /\ UNCHANGED <<chatHistory, imageUrl, choices, isLoading, isAmbianceMuted,
                   history, historyIndex, savedData,
                   characterVoices, loads, dialogue, turns>>
    /\ UNCHANGED ambVars

\* types.ts 126-132: the welcome speech arrived
WelcomeResolve ==
    /\ welcomeTts = "pending"
    /\ Headroom >= 1
    /\ welcomeTts' = "settled"
    /\ IF ~welcomeAudioHandled
       THEN /\ welcomeAudioHandled' = TRUE
            /\ \E mk \in ContextOutcomes :
                  SetNar(playNarration(Nar, welcomeAudio(narrationVersion + 1), mk))
       ELSE UNCHANGED <<welcomeAudioHandled, narVars>>
    /\ UNCHANGED <<chatHistory, imageUrl, choices, isLoading, isAmbianceMuted,
                   history, historyIndex, savedData,
                   characterVoices, loads, dialogue, turns>>
    /\ UNCHANGED ambVars

\* types.ts 133-136: the welcome speech request failed
WelcomeReject ==
    /\ welcomeTts = "pending"
    /\ welcomeTts' = "failed"
    /\ welcomeAudioHandled' = TRUE
    /\ UNCHANGED <<chatHistory, imageUrl, choices, isLoading, isAmbianceMuted,
                   history, historyIndex, savedData,
                   characterVoices, loads, dialogue, turns>>
    /\ UNCHANGED <<narVars, ambVars>>

\* The steps of a turn, with the story texts drawn from bodies,
\* generateIllustration answering from images, the
\* mood classifier from keywords and `new AudioContext()` behaving as one of
\* outcomes.
TurnStepOver(bodies, images, keywords, outcomes) ==
    \/ \E u \in SendInputs : HandleSendMessage(u)
    \/ \E t \in turns : GenFail(t)
    \/ \E t \in turns, r \in Responses, body \in bodies :
          GenResolve(t, r, body)
    \/ \E t \in turns : JoinFail(t)
    \/ \E t \in turns, img \in images, kw \in keywords,
          mkNar \in outcomes, mkAmb \in outcomes :
          Commit(t, img, kw, mkNar, mkAmb)
    \/ \E t \in turns : TurnFinally(t)

TurnStep == TurnStepOver(Bodies(SpeakerTags, BOOLEAN, 0, MaxTurnSegments),
                         Illustrations, ambianceKeywords, ContextOutcomes)

InitRest ==
    /\ chatHistory = initialStoryState.chatHistory
    /\ imageUrl = initialStoryState.imageUrl
    /\ choices = initialStoryState.choices
    /\ isLoading = FALSE
    /\ isAmbianceMuted = FALSE
    /\ history = <<initialStoryState>>
    /\ historyIndex = 0
    /\ welcomeAudioHandled = FALSE
    /\ welcomeTts = "pending"
    /\ savedData = <<>>
    /\ loads = 0
    /\ turns = {}
    /\ narrationAudioContext = "null"
    /\ currentNarrationSource = NoItem
    /\ narrationQueue = <<>>
    /\ isPlayingNarration = FALSE
    /\ narrationVersion = 0
    /\ narTasks = {}
    /\ narSources = {}
    /\ enqueued = <<>>
    /\ played = <<>>
    /\ failedItems = {}
    /\ abandoned = FALSE
    /\ ambianceAudioContext = "null"
    /\ ambianceGain = 0
    /\ currentAmbianceSource = 0
    /\ currentAmbianceUrl = "null"
    /\ ambTasks = {}
    /\ ambSources = {}
    /\ ambLog = <<>>

\* The state after the mount effect (types.ts 118-141) has run.
Init ==
    /\ InitRest
    /\ characterVoices = initialVoices
    /\ dialogue = NoDialogue

\* The whole app: every handler and every continuation.
Next ==
    \/ TurnStep
    \/ HandleUndo
    \/ HandleRedo
    \/ HandleSaveStory
    \/ HandleLoadStory
    \/ HandleToggleAmbianceMute
    \/ WelcomeResolve
    \/ WelcomeReject
    \/ NarrationStep
    \/ AmbianceStep

Spec == Init /\ [][Next]_vars

\* The history on its own: turns, undo and redo, with the audio continuations
\* the turns set off.  Nothing is saved or loaded, the welcome speech never
\* arrives, the audio contexts come up running (so no resume() is awaited),
\* the mood is one of two keywords and every illustration is generated.
HistoryImages == {"generated.png"}
HistoryKeywords == {"forest", "calm"}
HistoryOutcomes == {"running"}
HistoryBodies == Bodies({"NARRATOR"}, {FALSE}, 1, MaxTurnSegments)
NextHistory ==
    \/ TurnStepOver(HistoryBodies, HistoryImages, HistoryKeywords, HistoryOutcomes)
    \/ HandleUndo
    \/ HandleRedo
    \/ NarrationPlayStep
    \/ AmbianceLoadStep

SpecHistory == Init /\ [][NextHistory]_vars

\* Turns with every outcome of the audio contexts, and the assumption that
\* whatever a turn awaits settles: the generation call, the joined image, mood
\* and speech requests, resume() and decodeAudioData() each resolve or reject,
\* and a continuation whose promise settled runs.  The mood is always the
\* fallback keyword (the ambiance switch is not awaited by the turn).
LiveKeywords == {"calm"}
NextTurnLive ==
    \/ TurnStepOver(HistoryBodies, HistoryImages, LiveKeywords, ContextOutcomes)
    \/ NarrationStep
    \/ AmbianceResumeStep
    \/ \E t \in ambTasks : AmbLoaded(t)
    \/ \E t \in ambTasks : AmbFetchFail(t)

SpecTurnLive ==
    /\ Init /\ [][NextTurnLive]_vars
    /\ WF_vars(\E t \in turns : GenFail(t) \/ \E r \in Responses, body \in HistoryBodies :
                                                GenResolve(t, r, body))
    /\ WF_vars(\E t \in turns, img \in HistoryImages, kw \in LiveKeywords,
                  mkNar \in ContextOutcomes, mkAmb \in ContextOutcomes :
                  JoinFail(t) \/ Commit(t, img, kw, mkNar, mkAmb))
    /\ WF_vars(\E t \in turns : TurnFinally(t))
    /\ WF_vars(NarrationResumeStep)
    /\ WF_vars(\E t \in narTasks : DecodeOk(t) \/ DecodeFail(t))

\* A session: turns, undo, redo, save and load in every interleaving.  The
\* stories have tags of two characters, no audio context can be created (so
\* the players have no continuation to run), the mood is the fallback keyword
\* and the welcome speech never arrives.
SessionBodies == Bodies({"BARNABY", "MOLLY"}, {FALSE}, 1, 1)
SessionOutcomes == {"throw"}
NextSession ==
    \/ TurnStepOver(SessionBodies, HistoryImages, LiveKeywords, SessionOutcomes)
    \/ HandleUndo
    \/ HandleRedo
    \/ HandleSaveStory
    \/ HandleLoadStory

SpecSession == Init /\ [][NextSession]_vars

\* Turns, save and load with the audio continuations the turns set off: the
\* audio contexts come up running, every story is one narrator part, the mood
\* is the fallback keyword, every illustration is generated and the welcome
\* speech never arrives.
LoadBodies == Bodies({"NARRATOR"}, {FALSE}, 1, 1)
NextLoad ==
    \/ TurnStepOver(LoadBodies, HistoryImages, LiveKeywords, HistoryOutcomes)
    \/ HandleSaveStory
    \/ HandleLoadStory
    \/ NarrationPlayStep
    \/ \E t \in ambTasks : AmbLoaded(t)
    \/ \E t \in ambTasks : AmbFetchFail(t)

SpecLoad == Init /\ [][NextLoad]_vars

\* Turns and the mute button with the audio continuations the turns set off,
\* under the same assumptions.
NextMute ==
    \/ TurnStepOver(LoadBodies, HistoryImages, LiveKeywords, HistoryOutcomes)
    \/ HandleToggleAmbianceMute
    \/ NarrationPlayStep
    \/ \E t \in ambTasks : AmbLoaded(t)
    \/ \E t \in ambTasks : AmbFetchFail(t)

SpecMute == Init /\ [][NextMute]_vars

\* The welcome speech racing with the turns: the request made by the mount
\* effect resolves or rejects at any moment, the narration context comes up
\* in any state for the welcome speech, and the turns are as above.
NextWelcome ==
    \/ TurnStepOver(LoadBodies, HistoryImages, LiveKeywords, HistoryOutcomes)
    \/ WelcomeResolve
    \/ WelcomeReject
    \/ NarrationStep

SpecWelcome == Init /\ [][NextWelcome]_vars

\* The voice logic on its own: the session has met the first k characters of
\* the cast, in this order, and one more turn is sent whose story may tag any
\* character up to MaxDialogue times.
VoiceCast == <<"BARNABY", "MOLLY", "OWL", "FOX", "HARE">>
VoiceMapsOf(k) ==
    LET met   == {VoiceCast[i] : i \in 1..k}
        n     == Len(availableVoices)
        fixed == [c \in {"NARRATOR"} \cup {VoiceCast[i] : i \in 1..(IF k < n THEN k ELSE n)} |->
                     IF c = "NARRATOR" THEN narratorVoice
                     ELSE availableVoices[CHOOSE i \in 1..n : VoiceCast[i] = c]]
    IN  IF k <= n THEN {fixed}
        ELSE {fixed @@ (VoiceCast[k] :> availableVoices[i]) : i \in 1..n}
VoiceMaps == UNION {VoiceMapsOf(k) : k \in 0..Len(VoiceCast)}
VoiceBodies == Bodies({"NARRATOR"} \cup {VoiceCast[i] : i \in DOMAIN VoiceCast},
                      BOOLEAN, 0, MaxDialogue)

InitVoices ==
    /\ InitRest
    /\ characterVoices \in VoiceMaps
    /\ dialogue = NoDialogue

NextVoices ==
    \/ \E u \in SendInputs : HandleSendMessage(u)
    \/ \E t \in {x \in turns : x.pc = "gen"}, r \in Responses, body \in VoiceBodies :
          GenResolve(t, r, body)

SpecVoices == InitVoices /\ [][NextVoices]_vars

\* The derivation of the dialogue parts on its own, for every story text.
InitDialogue ==
    /\ InitRest
    /\ characterVoices = initialVoices
    /\ dialogue \in {[NoDialogue EXCEPT !.storyText = text] : text \in StoryTexts}

NextDialogue == DeriveDialogue

SpecDialogue == InitDialogue /\ [][NextDialogue]_vars

\* Turns whose stories have MaxSegments narrator parts (or are blank), with
\* the narration continuations they set off.  The audio contexts come up
\* running and the mood is the fallback keyword.
OrderBodies == Bodies({"NARRATOR"}, {FALSE}, MaxSegments, MaxSegments)
NextTurnOrder ==
    \/ TurnStepOver(OrderBodies, HistoryImages, LiveKeywords, HistoryOutcomes)
    \/ NarrationPlayStep
    \/ \E t \in ambTasks : AmbLoaded(t)
    \/ \E t \in ambTasks : AmbFetchFail(t)

SpecTurnOrder == Init /\ [][NextTurnOrder]_vars

NextNarration ==
    \/ CallStopNarration
    \/ CallPlayNarration
    \/ CallPlayNarrationSequence
    \/ NarrationStep

SpecNarration == Init /\ [][NextNarration]_vars

\* The player under the assumption that every resume(), every decodeAudioData()
\* and every playback completes or fails, and that its continuation then runs.
SpecNarrationLive ==
    /\ Init /\ [][NextNarration]_vars
    /\ WF_vars(NarrationResumeStep)
    /\ WF_vars(\E t \in narTasks : DecodeOk(t) \/ DecodeFail(t))
    /\ WF_vars(\E s \in narSources : OnEnded(s))

NextAmbiance ==
    \/ CallPlayAmbiance
    \/ HandleToggleAmbianceMute
    \/ AmbianceStep

SpecAmbiance == Init /\ [][NextAmbiance]_vars

----------------------------------------------------------------------------
(* Properties of the narration player *)

Range(seq) == {seq[i] : i \in DOMAIN seq}
IsPrefix(a, b) == Len(a) <= Len(b) /\ SubSeq(b, 1, Len(a)) = a
NotFailed(item) == item \notin failedItems

PlayingSources == {s \in narSources : s.state = "playing"}
CurrentTasks == {t \in narTasks : t.ver = narrationVersion}
StaleTasks == {t \in narTasks : t.ver # narrationVersion}

\* C4: whatever calls of playNarration / playNarrationSequence were made and
\* however their resume/decode completions and onended callbacks interleave,
\* a source that is playing belongs to the latest call: it plays an item that
\* the latest call enqueued, and no cancellation happened since.
C4_OnlyLastCallHeard ==
    \A s \in PlayingSources :
        /\ s.item.gen = narrationVersion
        /\ s.item \in Range(enqueued)

\* C4 witness: an item of the latest call plays while an invocation of a
\* superseded call is still suspended.
C4_Witness ==
    /\ PlayingSources # {}
    /\ StaleTasks # {}
    /\ narrationVersion >= 2

\* C5: a decode/start failure of one item is absorbed and the draining goes on.
\* The items started since the latest enqueue are, in order, the items of that
\* enqueue that did not fail; and once the player is idle again (no cancel, no
\* context/resume failure) every item that did not fail has been started.
NarrationIdle ==
    /\ CurrentTasks = {}
    /\ \A s \in PlayingSources : s.ver # narrationVersion
C5_FailedItemSkipped ==
    /\ IsPrefix(played, SelectSeq(enqueued, NotFailed))
    /\ (NarrationIdle /\ ~abandoned) => played = SelectSeq(enqueued, NotFailed)

\* C5 witness: queue [a, b, c], b failed to decode, a and c were played.
C5_Witness ==
    /\ Len(enqueued) = 3
    /\ failedItems = {enqueued[2]}
    /\ played = <<enqueued[1], enqueued[3]>>

\* C7: at most one narration source is started and neither stopped nor ended,
\* and at most one processNarrationQueue invocation of the current generation
\* is between taking an item and starting or abandoning it.
C7_OneSourceOneDrain ==
    /\ Cardinality(PlayingSources) <= 1
    /\ Cardinality(CurrentTasks) <= 1

\* C7 witness: one source plays while the ended event of a stopped source and
\* a stale invocation are both still outstanding.
C7_Witness ==
    /\ Cardinality(PlayingSources) = 1
    /\ \E s \in narSources : s.state = "stopped"
    /\ StaleTasks # {}

----------------------------------------------------------------------------
(* Properties of the ambiance player *)

ambRefs == <<ambianceAudioContext, ambianceGain, currentAmbianceSource,
             currentAmbianceUrl, ambTasks, ambSources>>
LiveAmbianceSources == {s \in ambSources : s.state = "live"}

\* C6: a playAmbiance call whose url equals the current-track marker is a
\* no-op: it is dropped, it changes no ambiance ref (context, gain, source,
\* marker), starts no fetch and no fade, and leaves every earlier call as it was.
C6_SameKeyIsNoOp ==
    [][(Len(ambLog') = Len(ambLog) + 1
        /\ ambLog'[Len(ambLog')].url = currentAmbianceUrl)
       => /\ UNCHANGED ambRefs
          /\ ambLog'[Len(ambLog')].status = "dropped"
          /\ SubSeq(ambLog', 1, Len(ambLog)) = ambLog]_vars

\* C6 witness: two consecutive calls with the same key, the first in flight or
\* succeeded, the second dropped.
C6_Witness ==
    \E i \in DOMAIN ambLog :
        /\ i + 1 \in DOMAIN ambLog
        /\ ambLog[i].url = ambLog[i + 1].url
        /\ ambLog[i].status \in {"fetch", "started"}
        /\ ambLog[i + 1].status = "dropped"

\* C8 (as claimed): apart from sources already scheduled to stop, at most one
\* started looping ambiance source is alive.
C8_OneAmbianceSource == Cardinality(LiveAmbianceSources) <= 1

\* C9 (as claimed): playAmbiance(A), then playAmbiance(B) with B # A while A is
\* still in flight; once both have started their source and nothing is in
\* flight, the source the ref holds is B's and the marker is B.
C9_LatestWins ==
    \A b \in DOMAIN ambLog :
        (/\ b = Len(ambLog) /\ b > 1
         /\ (b - 1) \in ambLog[b].during
         /\ ambLog[b - 1].url # ambLog[b].url
         /\ ambLog[b - 1].status = "started"
         /\ ambLog[b].status = "started"
         /\ ambTasks = {})
        => /\ currentAmbianceSource = b
           /\ currentAmbianceUrl = ambLog[b].url

----------------------------------------------------------------------------
(* Properties of the story history *)

TurnIds(ts) == {t.id : t \in ts}
TurnOf(ts, id) == CHOOSE t \in ts : t.id = id

\* C1: under every interleaving of turns, undo and redo (undo/redo while a
\* turn is in flight included) the log is never empty and the cursor is a
\* valid index into it, so the snapshot at the cursor is always defined.
C1_CursorValid ==
    /\ Len(history) >= 1
    /\ historyIndex \in 0..(Len(history) - 1)

\* C1 witness: the cursor was moved back while a turn is in flight.
C1_Witness ==
    \E t \in turns : t.pc = "join" /\ historyIndex < t.historyIndex

\* C2 (as claimed): a commit with the cursor at position c makes the log its
\* first c+1 snapshots followed by the new snapshot, and puts the cursor on
\* the new last index.
C2_CommitTruncatesAtCursor ==
    [][history' # history =>
          /\ Len(history') = historyIndex + 2
          /\ SubSeq(history', 1, historyIndex + 1) = SubSeq(history, 1, historyIndex + 1)
          /\ historyIndex' = Len(history') - 1]_vars

\* C3: undo is a no-op at cursor 0 and otherwise moves the cursor back by
\* one; redo is a no-op at the last index and otherwise moves the cursor
\* forward by one; neither changes the log.
C3_UndoRedoMoveCursorOnly ==
    [][/\ HandleUndo =>
            /\ history' = history
            /\ historyIndex' = IF historyIndex = 0 THEN 0 ELSE historyIndex - 1
       /\ HandleRedo =>
            /\ history' = history
            /\ historyIndex' = IF historyIndex = Len(history) - 1
                               THEN historyIndex ELSE historyIndex + 1]_vars

\* C3 witness: the cursor stands before the last snapshot, which only an undo
\* brings about.
C3_Witness ==
    /\ Len(history) >= 2
    /\ historyIndex < Len(history) - 1

\* C10: a turn is atomic with respect to the log.  The step in which a turn
\* commits makes the log a prefix of the old log followed by exactly one
\* snapshot, which holds the turn's chat (user and model message), its
\* choices and an illustration, and puts the cursor on it; the step in which
\* a turn fails leaves log and cursor alone and appends the apology to the
\* visible chat; no other step of a turn touches log or cursor.
C10_TurnAtomic ==
    [][\A id \in TurnIds(turns) \cup TurnIds(turns') :
          LET before == IF id \in TurnIds(turns) THEN TurnOf(turns, id).pc ELSE "none"
              after  == IF id \in TurnIds(turns') THEN TurnOf(turns', id).pc ELSE "none"
              t      == TurnOf(turns, id)
          IN  /\ (before = "join" /\ after = "narr") =>
                    /\ \E k \in 1..Len(history) :
                          /\ history' = Append(SubSeq(history, 1, k),
                                               history'[Len(history')])
                          /\ historyIndex' = k
                    /\ history'[Len(history')].chatHistory = t.chat
                    /\ history'[Len(history')].choices = t.choices
                    /\ history'[Len(history')].imageUrl \in Illustrations
                    /\ Len(t.chat) >= 2
                    /\ t.chat[Len(t.chat) - 1].author = "user"
                    /\ t.chat[Len(t.chat)].author = "model"
              /\ (before \in {"gen", "join"} /\ after = "none") =>
                    /\ UNCHANGED <<history, historyIndex>>
                    /\ chatHistory' = Append(chatHistory, apologyMessage)
              /\ (before # after /\ ~(before = "join" /\ after = "narr")) =>
                    UNCHANGED <<history, historyIndex>>]_vars

\* C10 witness: one turn committed, the next one failed: the log holds the
\* committed snapshot only and the visible chat ends with the apology.
C10_Witness ==
    /\ turns = {}
    /\ Len(history) = 2 /\ historyIndex = 1
    /\ chatHistory = Append(history[2].chatHistory, apologyMessage)

----------------------------------------------------------------------------
(* Properties of a turn *)

\* C11: every turn that passed the entry check eventually ends with the
\* loading flag cleared, whether it committed or failed, given that every
\* call it awaits and every audio resume/decode eventually returns or fails.
C11_TurnClearsLoading ==
    (turns # {}) ~> (turns = {} /\ ~isLoading)

\* C11 witness: a turn committed, the narration it enqueued was given up on a
\* context or resume failure, and the turn has ended with the flag cleared.
C11_Witness ==
    /\ turns = {} /\ ~isLoading
    /\ Len(history) >= 2
    /\ abandoned

\* C12 (as claimed): at most one turn is in flight at any time (here: at most
\* one turn is waiting for its generation call or for its image, mood and
\* speech requests), under every interleaving of send, undo, redo, save and
\* load.
C12_OneTurnInFlight ==
    Cardinality(Uncommitted) <= 1

\* C13: when the generation call returned text that is not JSON, the turn
\* goes on to its requests with the raw text as the model message and no
\* choices, and its commit puts the cursor on a snapshot whose last message
\* is a model message with exactly the raw response text and whose choices
\* are the empty sequence.
C13_NonJsonCommits ==
    [][\A id \in TurnIds(turns) \cap TurnIds(turns') :
          LET t    == TurnOf(turns, id)
              u    == TurnOf(turns', id)
              snap == history'[Len(history')]
          IN  /\ (t.pc = "gen" /\ u.pc = "join" /\ ~u.json) =>
                    /\ u.chat[Len(u.chat)] = [author |-> "model", text |-> u.raw]
                    /\ u.choices = <<>>
              /\ (t.pc = "join" /\ u.pc = "narr" /\ ~t.json) =>
                    /\ snap.chatHistory[Len(snap.chatHistory)] =
                          [author |-> "model", text |-> t.raw]
                    /\ snap.choices = <<>>
                    /\ historyIndex' = Len(history') - 1]_vars

\* C13 witness: the snapshot at the cursor came from a turn whose response was
\* the plain text "Once upon a time...".
C13_Witness ==
    LET chat == history[historyIndex + 1].chatHistory
    IN  /\ Len(history) >= 2
        /\ chat[Len(chat)] = [author |-> "model", text |-> "Once upon a time..."]
        /\ history[historyIndex + 1].choices = <<>>

----------------------------------------------------------------------------
(* Properties of the character voices *)

\* the distinct elements of a sequence, in order of first appearance
RECURSIVE FirstAppearances(_, _)
FirstAppearances(seq, seen) ==
    IF seq = <<>> THEN <<>>
    ELSE IF Head(seq) \in seen THEN FirstAppearances(Tail(seq), seen)
         ELSE <<Head(seq)>> \o FirstAppearances(Tail(seq), seen \cup {Head(seq)})

C15_VoicesMonotonic ==
    [][/\ loads' = loads =>
             \A c \in DOMAIN characterVoices :
                 c \in DOMAIN characterVoices' /\ characterVoices'[c] = characterVoices[c]
       /\ "NARRATOR" \in DOMAIN characterVoices'
       /\ characterVoices'["NARRATOR"] = narratorVoice]_vars

----------------------------------------------------------------------------
(* Properties of the dialogue parts *)

\* what is to be spoken of a piece: nothing of a tag, the word of a marker
Spoken(token) ==
    IF Head(token) = "[" THEN <<>>
    ELSE IF Head(token) = "{" THEN <<token[2]>>
    ELSE token

RECURSIVE SpokenText(_)
SpokenText(ts) == IF ts = <<>> THEN <<>> ELSE Spoken(Head(ts)) \o SpokenText(Tail(ts))

\* the pieces after each tag, up to the next tag
RECURSIVE Segments(_)
Segments(ts) ==
    IF ts = <<>> THEN <<>>
    ELSE IF Head(Head(ts)) = "["
         THEN LET rest == Tail(ts)
                  next == {k \in DOMAIN rest : Head(rest[k]) = "["}
                  stop == IF next = {} THEN Len(rest) + 1
                          ELSE CHOOSE k \in next : \A j \in next : k <= j
              IN  <<SubSeq(rest, 1, stop - 1)>> \o Segments(SubSeq(rest, stop, Len(rest)))
         ELSE Segments(Tail(ts))

\* the synthesis inputs a text made of these pieces shall give: one per tagged
\* segment that has something to speak, or one for the whole text if it has
\* no tag
RECURSIVE SegmentInputs(_)
SegmentInputs(segs) ==
    IF segs = <<>> THEN <<>>
    ELSE LET spoken == TrimText(SpokenText(Head(segs)))
         IN  IF spoken = <<>> THEN SegmentInputs(Tail(segs))
             ELSE <<spoken>> \o SegmentInputs(Tail(segs))

HasTag(ts) == \E k \in DOMAIN ts : Head(ts[k]) = "["

\* C16 (as claimed): the synthesis input of every derived dialogue part has
\* its speaker tag removed and every marker {word|definition} replaced by
\* word, for the parts derived from tagged text and for the single NARRATOR
\* part derived from non-empty text without a tag.
C16_SynthesisInputStripped ==
    dialogue.derived =>
       \A ts \in TokenSeqs :
          Concat(ts) = dialogue.storyText =>
             LET inputs == [i \in DOMAIN dialogue.dialogueParts |->
                               TrimText(dialogue.dialogueParts[i].text)]
             IN  /\ HasTag(ts) /\ SegmentInputs(Segments(ts)) # <<>> =>
                       inputs = SegmentInputs(Segments(ts))
                 /\ ~HasTag(ts) /\ TrimText(Concat(ts)) # <<>> =>
                       inputs = <<TrimText(SpokenText(ts))>>

----------------------------------------------------------------------------
(* Properties of the narration of a turn *)

\* C17: the narration parts of a committed turn start playing in derivation
\* order, one after another, whatever order their speech requests completed
\* in, as long as no cancellation intervenes: what was enqueued is the parts
\* in derivation order, what has started since is in that order too, without
\* gaps if no part failed to decode, and never two parts play at once.
C17_DerivationOrder ==
    /\ enqueued = Items(narrationVersion, Len(enqueued))
    /\ \A i, j \in DOMAIN played : i < j => played[i].pos < played[j].pos
    /\ \A i \in DOMAIN played : played[i] \in Range(enqueued)
    /\ failedItems = {} => IsPrefix(played, enqueued)
    /\ Cardinality(PlayingSources) <= 1

\* C17 witness: a committed turn with several parts has started all of them,
\* in order.
C17_Witness ==
    /\ Len(history) >= 2
    /\ Len(enqueued) >= 2
    /\ played = enqueued

PlaybackUntouched ==
    /\ narrationQueue' = narrationQueue
    /\ currentNarrationSource' = currentNarrationSource
    /\ isPlayingNarration' = isPlayingNarration
    /\ narSources' \subseteq narSources

\* C18 (as claimed): a narration step (a processNarrationQueue continuation
\* or an onended callback) whose captured generation is no longer the
\* current one starts no source and changes neither the queue, nor the
\* active-source reference, nor the isPlayingNarration flag.
C18_StaleStepInert ==
    [][/\ \A t \in StaleTasks :
             (ResumeOk(t) \/ ResumeFail(t) \/ DecodeOk(t) \/ DecodeFail(t))
                => PlaybackUntouched
       /\ \A s \in narSources :
             (s.ver # narrationVersion /\ OnEnded(s)) => PlaybackUntouched]_vars

\* C19: after stopNarration there is no active narration source (the
\* reference is null and no source is playing), the queue is empty, the
\* playing flag is false and the generation is strictly greater than before;
\* called again in that state it changes nothing about the queue, the active
\* source or the playing flag.
C19_CancelResets ==
    [][CallStopNarration =>
          /\ currentNarrationSource' = NoItem
          /\ \A s \in narSources' : s.state # "playing"
          /\ narrationQueue' = <<>>
          /\ ~isPlayingNarration'
          /\ narrationVersion' > narrationVersion
          /\ (currentNarrationSource = NoItem /\ narrationQueue = <<>>
                /\ ~isPlayingNarration) =>
                   /\ narrationQueue' = narrationQueue
                   /\ currentNarrationSource' = currentNarrationSource
                   /\ isPlayingNarration' = isPlayingNarration
                   /\ narSources' = narSources]_vars

\* C19 witness: a cancellation has stopped a source that was playing (its
\* ended event is still to come) and nothing has been enqueued since.
C19_Witness ==
    /\ narrationVersion >= 2
    /\ enqueued = <<>>
    /\ currentNarrationSource = NoItem /\ narrationQueue = <<>> /\ ~isPlayingNarration
    /\ \E s \in narSources : s.state = "stopped"

----------------------------------------------------------------------------
(* Properties of a failed ambiance switch *)

\* C20 (as claimed): when a playAmbiance call that has set the current-track
\* marker fails (the audio context cannot be created, resume() is rejected,
\* the fetch, the size check or the decoding fails), the marker is cleared,
\* so that a later call with the same url is not dropped.
C20_FailureClearsMarker ==
    [][\A i \in DOMAIN ambLog' :
          (/\ ambLog'[i].status \in {"ctxfail", "resumefail", "fetchfail"}
           /\ (i \in DOMAIN ambLog => ambLog[i].status # ambLog'[i].status))
             => currentAmbianceUrl' = "null"]_vars

\* C21 (as claimed): a switch that fails in fetch, validation or decoding leaves
\* the source that was playing before it untouched.  Call b was made while no
\* other call was in flight and the call before it had started its source; b
\* failed and no call was made since: the source of the call before b is still
\* alive, not scheduled to stop, and still the one the ref holds.
C21_FailedSwitchKeepsOldSource ==
    \A b \in DOMAIN ambLog :
        (/\ b = Len(ambLog) /\ b > 1
         /\ ambLog[b].status = "fetchfail"
         /\ ambLog[b].during = {}
         /\ ambLog[b - 1].status = "started"
         /\ ambLog[b - 1].during = {})
        => /\ currentAmbianceSource = b - 1
           /\ \E s \in ambSources : s.id = b - 1 /\ s.state = "live"

----------------------------------------------------------------------------
(* Properties of loading a saved session *)

\* the sources an ambiance invocation started in this step
StartedNow == {s \in ambSources' : s.state = "live" /\ s \notin ambSources}

\* C22 (as claimed): a load that finds a saved session leaves no narration
\* source active, the narration queue empty, no ambiance source playing and the
\* current-track marker cleared; and an ambiance switch that was requested
\* before a load starts no source after it, nor does a narration item that was
\* enqueued before the load start playing after it.
C22_LoadResetsAudio ==
    [][/\ (loads' = loads + 1 /\ savedData # <<>>)
          => /\ currentNarrationSource' = NoItem
             /\ narrationQueue' = <<>>
             /\ \A s \in narSources' : s.state # "playing"
             /\ \A s \in ambSources' : s.state # "live"
             /\ currentAmbianceUrl' = "null"
       /\ \A t \in ambTasks : t.loads < loads => (\A s \in StartedNow : s.id # t.id)
       /\ \A s \in narSources' :
             (s.state = "playing" /\ s \notin narSources /\ loads > 0)
                => s.item.gen >= narrationVersion]_vars

----------------------------------------------------------------------------
(* Properties of the narration player's failure paths *)

\* the invocation t of the current generation, suspended in resume(), ends in
\* this step without going on to decode its item: resume() was rejected
ResumeRejected(t) ==
    /\ t \in narTasks /\ t.pc = "resume" /\ t.ver = narrationVersion
    /\ narrationVersion' = narrationVersion
    /\ \A u \in narTasks' : u.item # t.item

\* C23 (as claimed): when resume() is rejected while an item is being
\* processed, the item is abandoned and the next queued item of the same
\* generation is attempted: it is taken off the queue and an invocation for it
\* is under way.
C23_ResumeFailureTriesNext ==
    [][\A t \in narTasks :
          (ResumeRejected(t) /\ narrationQueue # <<>>)
             => /\ narrationQueue' = Tail(narrationQueue)
                /\ \E u \in narTasks' : /\ u.item = Head(narrationQueue)
                                        /\ u.ver = narrationVersion]_vars

\* the player at rest: nothing queued, no source held, flag down, and no
\* invocation of the current generation suspended
NarrationAtRest ==
    /\ narrationQueue = <<>>
    /\ currentNarrationSource = NoItem
    /\ ~isPlayingNarration
    /\ CurrentTasks = {}

\* C24 (as claimed): after a playNarration / playNarrationSequence call, unless
\* a later call or cancellation supersedes it, the player eventually is at rest
\* with an empty queue, whichever of the context creation, resume(), decoding
\* or playback fails.
C24_PlayerReturnsIdle ==
    \A v \in 1..MaxVersion :
        (narrationVersion = v /\ enqueued # <<>>)
            ~> (narrationVersion > v \/ NarrationAtRest)

----------------------------------------------------------------------------
(* Properties of the effects of a turn *)

\* the turn with this id goes from before to after in this step
TurnMoves(id, before, after) ==
    /\ (IF id \in TurnIds(turns) THEN TurnOf(turns, id).pc ELSE "none") = before
    /\ (IF id \in TurnIds(turns') THEN TurnOf(turns', id).pc ELSE "none") = after

\* C25: the effects of a turn are ordered.  An ambiance switch is requested
\* only by a turn whose snapshot is committed by then (it is the snapshot at
\* the cursor); a narration sequence is enqueued only by a turn whose ambiance
\* switch is requested by then and whose snapshot is committed; a turn that
\* fails requests no ambiance switch and enqueues no narration, and neither
\* does a turn at its earlier steps.
C25_TurnEffectsOrdered ==
    [][\A id \in TurnIds(turns) \cup TurnIds(turns') :
          LET t == TurnOf(turns, id)
              committed == /\ history'[historyIndex' + 1].chatHistory = t.chat
                           /\ historyIndex' = Len(history') - 1
          IN  /\ TurnMoves(id, "join", "narr") =>
                    /\ Len(ambLog') = Len(ambLog) + 1 => committed
                    /\ enqueued' # enqueued =>
                          /\ Len(ambLog') = Len(ambLog) + 1
                          /\ committed
                    /\ Len(ambLog') = Len(ambLog) + 1
                    /\ narrationVersion' = narrationVersion + 1
              /\ (TurnMoves(id, "gen", "none") \/ TurnMoves(id, "join", "none")
                  \/ TurnMoves(id, "gen", "join")) =>
                    /\ ambLog' = ambLog
                    /\ enqueued' = enqueued
                    /\ narrationVersion' = narrationVersion]_vars

\* C25 witness: the first turn failed and the second one committed: its
\* snapshot is at the cursor, one ambiance switch was requested in all, and
\* the turn's narration is enqueued.
C25_Witness ==
    \E t \in turns :
        /\ t.pc = "narr" /\ t.id = 2
        /\ Len(history) = 2 /\ history[historyIndex + 1].chatHistory = t.chat
        /\ Len(ambLog) = 1
        /\ enqueued # <<>>

----------------------------------------------------------------------------
(* Properties of a malformed generation response *)

\* the response text parses as JSON but story is not a string or choices is
\* not an array
InvalidStructure(raw) ==
    \E r \in Responses : r.text = raw /\ r.json /\ ~(r.isString /\ r.isArray)

\* C26 (as claimed): when the response is valid JSON without the required
\* structure, the turn goes on with the raw response text as the model message
\* and no choices, and the snapshot it commits has that message last and the
\* empty sequence as its choices.
C26_BadStructureDegrades ==
    [][\A id \in TurnIds(turns) \cap TurnIds(turns') :
          LET t    == TurnOf(turns, id)
              u    == TurnOf(turns', id)
              snap == history'[Len(history')]
          IN  /\ (t.pc = "gen" /\ u.pc = "join" /\ InvalidStructure(u.raw)) =>
                    /\ u.chat[Len(u.chat)] = [author |-> "model", text |-> u.raw]
                    /\ u.choices = <<>>
              /\ (t.pc = "join" /\ u.pc = "narr" /\ InvalidStructure(t.raw)) =>
                    /\ snap.chatHistory[Len(snap.chatHistory)] =
                          [author |-> "model", text |-> t.raw]
                    /\ snap.choices = <<>>]_vars

----------------------------------------------------------------------------
(* Properties of the mute flag *)

\* C27 (as claimed): when a track switch completes (its source is started)
\* while ambiance is muted, the gain is held at 0 and no ramp up to
\* AMBIANCE_VOLUME is scheduled, also when the flag was toggled while the turn
\* that requested the switch, or the switch's fetch, was in flight.
C27_MutedSwitchStaysSilent ==
    [][\A t \in ambTasks :
          (/\ t.pc = "fetch"
           /\ ambLog[t.id].status = "fetch" /\ ambLog'[t.id].status = "started"
           /\ isAmbianceMuted)
             => ambianceGain' = 0]_vars

----------------------------------------------------------------------------
(* Properties of the view *)

\* C28 (as claimed): the view does not diverge from the log.  After every step
\* that changes the log or the cursor (commit, undo, redo) the visible chat,
\* image and choices are those of the snapshot at the cursor; and whenever no
\* turn is in flight the visible image and choices are those of the snapshot
\* at the cursor, and the visible chat begins with that snapshot's chat.
C28_ViewFollowsLog ==
    [][LET cur == history'[historyIndex' + 1]
       IN  /\ (history' # history \/ historyIndex' # historyIndex) =>
                 /\ chatHistory' = cur.chatHistory
                 /\ imageUrl' = cur.imageUrl
                 /\ choices' = cur.choices
           /\ turns' = {} =>
                 /\ imageUrl' = cur.imageUrl
                 /\ choices' = cur.choices
                 /\ IsPrefix(cur.chatHistory, chatHistory')]_vars

----------------------------------------------------------------------------
(* Properties of the ambiance switch of a turn *)

\* a suspended playAmbiance invocation continues or ends in this step
AmbianceContinues == ambTasks' # ambTasks /\ Len(ambLog') = Len(ambLog)

\* the playAmbiance call made in this step failed before its first await
AmbianceCallFails ==
    /\ Len(ambLog') = Len(ambLog) + 1
    /\ ambLog'[Len(ambLog')].status = "ctxfail"

\* C29: an ambiance failure never blocks the story.  No continuation of
\* playAmbiance, failing or not, touches the turn, the log, the view, the
\* loading flag or the narration; a playAmbiance call that fails at once
\* happens in a step that still commits the snapshot and enqueues the
\* narration; and a committed turn ends with the loading flag cleared although
\* its ambiance switch may never settle.
C29_AmbianceNeverBlocks ==
    /\ [][AmbianceContinues =>
             UNCHANGED <<turns, history, historyIndex, chatHistory, imageUrl,
                         choices, isLoading, narVars>>]_vars
    /\ [][AmbianceCallFails =>
             /\ historyIndex' = Len(history') - 1
             /\ narrationVersion' = narrationVersion + 1
             /\ \E t \in turns' : t.pc = "narr" /\ t \notin turns]_vars
    /\ (\E t \in turns : t.pc = "narr") ~> (turns = {} /\ ~isLoading)

\* C29 witness: a turn has committed, its narration has started and the turn
\* has ended with the flag cleared, while its ambiance switch failed or is
\* still suspended.
C29_Witness ==
    /\ turns = {} /\ ~isLoading
    /\ Len(history) = 2
    /\ played # <<>>
    /\ Len(ambLog) = 1
    /\ ambLog[1].status \in {"ctxfail", "resumefail", "fetchfail", "resume", "fetch"}

----------------------------------------------------------------------------
(* Properties of a turn that overlaps undo and redo *)

\* C30 (as claimed): when a turn commits, whatever undo and redo did while it
\* was in flight, the log becomes the old log cut after the snapshot the cursor
\* is on at that moment followed by the new snapshot, and the new snapshot's
\* chat is the chat of the snapshot the cursor is on at that moment followed
\* by the turn's user message and model message.
C30_CommitUsesCurrentCursor ==
    [][\A id \in TurnIds(turns) :
          TurnMoves(id, "join", "narr") =>
             /\ history' = Append(SubSeq(history, 1, historyIndex + 1),
                                  history'[Len(history')])
             /\ historyIndex' = historyIndex + 1
             /\ SubSeq(history'[Len(history')].chatHistory, 1,
                       Len(history'[Len(history')].chatHistory) - 2)
                   = history[historyIndex + 1].chatHistory]_vars

----------------------------------------------------------------------------
(* Properties of the chats in the log *)

\* the chat b is the chat a followed by one user message and one model message
ExtendsByOneExchange(a, b) ==
    /\ Len(b) = Len(a) + 2
    /\ SubSeq(b, 1, Len(a)) = a
    /\ b[Len(a) + 1].author = "user"
    /\ b[Len(a) + 2].author = "model"

\* C31: in every log built by turns, undo and redo from the initial snapshot,
\* the chat of each snapshot is the chat of the snapshot before it followed by
\* exactly one user message and one model message; no snapshot contains the
\* apology message, and in no snapshot a user message lacks its model reply.
C31_ChatsChain ==
    /\ history[1] = initialStoryState
    /\ \A i \in 1..(Len(history) - 1) :
          ExtendsByOneExchange(history[i].chatHistory, history[i + 1].chatHistory)
    /\ \A i \in DOMAIN history :
          LET chat == history[i].chatHistory
          IN  /\ apologyMessage \notin Range(chat)
              /\ \A j \in DOMAIN chat :
                    chat[j].author = "user" =>
                       (j < Len(chat) /\ chat[j + 1].author = "model")

\* C31 witness: two turns committed one after the other, so that the log has
\* two consecutive pairs of snapshots.
C31_Witness ==
    /\ Len(history) = 3 /\ historyIndex = 2
    /\ turns = {}

----------------------------------------------------------------------------
(* Properties of the welcome speech *)

\* handleSendMessage has accepted a message (no undo or load is considered):
\* a turn is in flight or the visible chat has moved on from the welcome
WelcomeOver == turns # {} \/ chatHistory # initialStoryState.chatHistory

\* the invocations and the sources that carry the welcome speech
WelcomeTasks == {t \in narTasks : t.item.pos = 0}
WelcomeSources == {s \in narSources : s.item.pos = 0}

\* C32: the welcome narration is started at most once and never after
\* handleSendMessage has accepted a message.  The welcome speech is handed to
\* the player at most once; its source is started only while no message has
\* been accepted; and when the welcome synthesis completes after an accepted
\* send, the step leaves the narration player, and with it the turn's
\* narration, untouched.
C32_WelcomeOnlyBeforeFirstSend ==
    [][/\ (welcomeTts # "pending") => (welcomeTts' = welcomeTts)
       /\ Cardinality(WelcomeTasks') + Cardinality(WelcomeSources') <= 1
       /\ (WelcomeTasks' \cup WelcomeSources' # {}) => welcomeTts' = "settled"
       /\ \A s \in WelcomeSources' :
             (s.state = "playing" /\ s \notin narSources) => ~WelcomeOver'
       /\ (welcomeTts = "pending" /\ welcomeTts' = "settled" /\ WelcomeOver)
             => UNCHANGED narVars]_vars

\* C32 witness: the welcome synthesis completed after the first send was
\* accepted (no generation was spent on it) and the turn's narration plays.
C32_Witness ==
    /\ welcomeTts = "settled"
    /\ \E t \in turns : t.pc = "narr" /\ t.id = 1 /\ t.gen = 2
    /\ \E s \in narSources : s.state = "playing" /\ s.item = [gen |-> 2, pos |-> 1]

----------------------------------------------------------------------------
(* Properties of the playing flag *)

\* a call of playNarration / playNarrationSequence with at least one payload
\* is made in this step
EnqueueStep == narrationVersion' = narrationVersion + 1 /\ enqueued' # <<>>

\* the ended event of a source of the current generation is delivered, or an
\* invocation of the current generation fails in decoding, in this step: both
\* call processNarrationQueue again
RedrainStep ==
    /\ narrationVersion' = narrationVersion
    /\ \/ \E s \in narSources : s.ver = narrationVersion /\ s \notin narSources'
       \/ \E t \in narTasks : /\ t.pc = "decode" /\ t.ver = narrationVersion
                              /\ t \notin narTasks'
                              /\ t.item \in failedItems' \ failedItems

\* C33: the playing flag is never left stuck.  When no source is playing and
\* no processNarrationQueue invocation is suspended, the flag is false; and
\* every call of processNarrationQueue for the current generation finds it
\* false, that is, it is not turned away while payloads are queued: the call
\* made by an enqueue takes the first payload enqueued, and the call made by
\* onended or by the failure handler takes the head of the queue.
C33_FlagNeverStuck ==
    [][/\ (PlayingSources' = {} /\ narTasks' = {}) => ~isPlayingNarration'
       /\ EnqueueStep => narrationQueue' = Tail(enqueued')
       /\ (RedrainStep /\ narrationQueue # <<>>) =>
             /\ narrationQueue' = Tail(narrationQueue)
             /\ isPlayingNarration'
             /\ \E t \in narTasks' : t.item = Head(narrationQueue)]_vars

\* C33 witness: a sequence was enqueued, its first payload failed to decode,
\* the second played to its end, and the player is at rest with the flag down
\* after draining the queue.
C33_Witness ==
    /\ Len(enqueued) = 2
    /\ failedItems = {enqueued[1]}
    /\ played = <<enqueued[2]>>
    /\ narSources = {} /\ narTasks = {}
    /\ ~isPlayingNarration /\ narrationQueue = <<>>

=============================================================================
